---- MODULE Spec2Model ----
(***************************************************************************)
(* A model of the staging service's import-specification core:             *)
(* staging_service/app.py (type-mapping table, file-type resolver,         *)
(* bulk_specification, write_bulk_specification, upload_files_chunked's    *)
(* part loop, startup) and staging_service/autodetect/GenerateMappings.py. *)
(*                                                                         *)
(* Python str values are sequences of one-character strings, so that       *)
(* suffix extraction, splitting, lower-casing and sorted() are computed    *)
(* the way Python computes them.                                           *)
(***************************************************************************)
EXTENDS Integers, Sequences, FiniteSets, TLC

VARIABLES
    app,                \* "init" | "serving" | "failed": what app_factory produced
    DATA_DIR,           \* Path._DATA_DIR
    config,             \* the FILE_EXTENSION_MAPPINGS document given to app_factory
    MAPPINGS,           \* AutoDetectUtils._MAPPINGS
    DATATYPE_MAPPINGS,  \* app.py global _DATATYPE_MAPPINGS
    disk,               \* the staging area: user path -> file content
    dirs,               \* the directories that exist in the staging area
    tasks,              \* the request handlers suspended at an await
    response,           \* the response a handler returned, until it is sent
    parsed,             \* with a response: what its handler read (paths, ParseResults, body)
    gen,                \* autodetect/GenerateMappings.py: the script's module-level values
    upload              \* upload_files_chunked: the locals of its part-scanning loop

vars ==
    <<app, DATA_DIR, config, MAPPINGS, DATATYPE_MAPPINGS, disk, dirs, tasks, response, parsed,
      gen, upload>>

(***************************************************************************)
(* Bounds of the model.                                                    *)
(***************************************************************************)
MaxFiles == 2     \* paths named by one bulk_specification request
MaxRecs == 3      \* extension records of a configuration document
MaxTasks == 2     \* request handlers in flight at once
MaxParts == 103   \* multipart parts one upload request sends
MaxExts == 2      \* extensions autodetect.Mappings registers

\* Python's None.  TLC compares values of one kind only, so None is written
\* None where a callable or a tag may stand, NoneStr where a str or a list
\* may stand, and NoneObj where a dict or an object may stand.
None == "None"
NoneStr == <<"None">>
NoneObj == [none |-> TRUE]

(***************************************************************************)
(* Python str: code points, comparison, lower(), split/rfind helpers.      *)
(***************************************************************************)
Ascii ==
    <<" ", "!", "QUOTE", "#", "$", "%", "&", "'", "(", ")", "*", "+", ",", "-", ".", "/",
      "0", "1", "2", "3", "4", "5", "6", "7", "8", "9", ":", ";", "<", "=", ">", "?",
      "@", "A", "B", "C", "D", "E", "F", "G", "H", "I", "J", "K", "L", "M", "N", "O",
      "P", "Q", "R", "S", "T", "U", "V", "W", "X", "Y", "Z", "[", "BACKSLASH", "]", "^", "_",
      "GRAVE", "a", "b", "c", "d", "e", "f", "g", "h", "i", "j", "k", "l", "m", "n", "o",
      "p", "q", "r", "s", "t", "u", "v", "w", "x", "y", "z", "{", "|", "}", "~">>

\* ord(c)
Ord(c) == 31 + (CHOOSE i \in 1..Len(Ascii) : Ascii[i] = c)

\* the characters "A".."Z", and what lower() makes of each
UpperCase == {Ascii[i] : i \in (65 - 31)..(90 - 31)}
LowerTable == [c \in UpperCase |-> Ascii[Ord(c) + 32 - 31]]

\* c.lower() for one character
LowerChar(c) == IF c \in UpperCase THEN LowerTable[c] ELSE c

\* s.lower()
Lower(s) == [i \in 1..Len(s) |-> LowerChar(s[i])]

\* s < t for Python str (lexicographic by code point)
RECURSIVE StrLess(_, _)
StrLess(s, t) ==
    IF t = <<>> THEN FALSE
    ELSE IF s = <<>> THEN TRUE
    ELSE IF s[1] # t[1] THEN Ord(s[1]) < Ord(t[1])
    ELSE StrLess(Tail(s), Tail(t))

\* the positions of character c in s
Positions(s, c) == {i \in 1..Len(s) : s[i] = c}

SetMax(S) == CHOOSE x \in S : \A y \in S : y <= x
SetMin(S) == CHOOSE x \in S : \A y \in S : x <= y

\* s[i:] with a 1-based first position
From(s, i) == SubSeq(s, i, Len(s))

\* sorted(S) for a set of str
RECURSIVE sorted(_)
sorted(S) ==
    IF S = {} THEN <<>>
    ELSE LET m == CHOOSE x \in S : \A y \in S \ {x} : StrLess(x, y)
         IN <<m>> \o sorted(S \ {m})

Range(s) == {s[i] : i \in 1..Len(s)}

(***************************************************************************)
(* autodetect.Mappings: the file types of the import-specification formats *)
(* and one non-tabular type; extensions and importer app ids.              *)
(***************************************************************************)
CSV == <<"C", "S", "V">>
TSV == <<"T", "S", "V">>
EXCEL == <<"E", "X", "C", "E", "L">>
FASTA == <<"F", "A", "S", "T", "A">>

ext_csv == <<"c", "s", "v">>
ext_tsv == <<"t", "s", "v">>
ext_xls == <<"x", "l", "s">>
ext_fa == <<"f", "a">>
ext_fa_gz == <<"f", "a", ".", "g", "z">>

media_id == <<"m", "e", "d", "i", "a">>
assembly_id == <<"a", "s", "s", "e", "m", "b", "l", "y">>
sample_set_id == <<"s", "a", "m", "p", "l", "e", "_", "s", "e", "t">>

\* the callables of staging_service.import_specifications.individual_parsers
parse_csv == "parse_csv"
parse_tsv == "parse_tsv"
parse_excel == "parse_excel"

\* _IMPSPEC_FILE_TO_PARSER
IMPSPEC_FILE_TO_PARSER ==
    (CSV :> parse_csv) @@ (TSV :> parse_tsv) @@ (EXCEL :> parse_excel)

(***************************************************************************)
(* The FILE_EXTENSION_MAPPINGS document.  A JSON object is a function on   *)
(* its keys; the "types" object keeps the order of its members, as the     *)
(* dict json.load builds does, and is a sequence of <<extension, record>>. *)
(***************************************************************************)
Rec(fet, apps) ==
    [file_ext_type |-> fet, mappings |-> [i \in 1..Len(apps) |-> [id |-> apps[i], app_weight |-> 1]]]

RecordPool ==
    { <<ext_csv, Rec(<<CSV>>, <<sample_set_id>>)>>,
      <<ext_csv, Rec(<<FASTA, CSV>>, <<assembly_id, sample_set_id>>)>>,
      <<ext_tsv, Rec(<<TSV>>, <<media_id, sample_set_id>>)>>,
      <<ext_tsv, Rec(<<TSV, FASTA>>, <<sample_set_id, media_id, sample_set_id>>)>>,
      <<ext_xls, Rec(<<EXCEL>>, <<sample_set_id>>)>>,
      <<ext_xls, Rec(<<EXCEL>>, <<>>)>>,
      <<ext_fa_gz, Rec(<<FASTA>>, <<assembly_id>>)>>,
      <<ext_fa, Rec(<<FASTA>>, <<assembly_id>>)>>,
      \* malformed records
      <<ext_fa, [mappings |-> <<[id |-> assembly_id, app_weight |-> 1]>>]>>,
      <<ext_fa, [file_ext_type |-> <<FASTA>>]>>,
      <<ext_fa, [file_ext_type |-> <<>>, mappings |-> <<>>]>>,
      <<ext_fa, [file_ext_type |-> <<FASTA>>, mappings |-> <<[app_weight |-> 1]>>]>> }

\* the members of a JSON object have distinct keys
DistinctKeys(items) == \A i, j \in 1..Len(items) : items[i][1] = items[j][1] => i = j

TypesObjects ==
    {items \in UNION {[1..n -> RecordPool] : n \in 0..MaxRecs} : DistinctKeys(items)}

\* what open() + json.load() find at the configured location
ConfigDocs ==
    {[kind |-> "missing"], [kind |-> "invalid"], [kind |-> "json", doc |-> [version |-> 1]]}
    \cup {[kind |-> "json", doc |-> [types |-> items]] : items \in TypesObjects}

(***************************************************************************)
(* inject_config_dependencies, app.py 620-673.                             *)
(***************************************************************************)
\* a dict of single values: d[k] = {x} drops what the key held before
DictAdd_Overwrite(d, k, x) ==
    IF k \in DOMAIN d THEN [d EXCEPT ![k] = {x}] ELSE d @@ (k :> {x})

\* defaultdict(set): d[k].add(x)
DictAdd(d, k, x) ==
    IF k \in DOMAIN d THEN [d EXCEPT ![k] = @ \cup {x}] ELSE d @@ (k :> {x})

\* for m in val['mappings']: datatypes[m['id']].add(filetype)
RECURSIVE MappingsLoop(_, _, _, _)
MappingsLoop(ms, j, filetype, datatypes) ==
    IF j > Len(ms) THEN [raised |-> FALSE, datatypes |-> datatypes]
    ELSE IF "id" \notin DOMAIN ms[j] THEN [raised |-> TRUE, datatypes |-> datatypes]
    ELSE MappingsLoop(ms, j + 1, filetype, DictAdd(datatypes, ms[j].id, filetype))

\* for fileext, val in AutoDetectUtils._MAPPINGS["types"].items(): ...
RECURSIVE TypesLoop(_, _, _, _)
TypesLoop(items, i, datatypes, extensions) ==
    IF i > Len(items)
    THEN [raised |-> FALSE, datatypes |-> datatypes, extensions |-> extensions]
    ELSE LET fileext == items[i][1]
             val == items[i][2]
             failed == [raised |-> TRUE, datatypes |-> datatypes, extensions |-> extensions]
         IN IF "file_ext_type" \notin DOMAIN val THEN failed         \* KeyError
            ELSE IF val.file_ext_type = <<>> THEN failed              \* IndexError
            ELSE LET filetype == val.file_ext_type[1]
                     exts == DictAdd(extensions, filetype, fileext)
                 IN IF "mappings" \notin DOMAIN val THEN failed      \* KeyError
                    ELSE LET inner == MappingsLoop(val.mappings, 1, filetype, datatypes)
                         IN IF inner.raised THEN failed
                            ELSE TypesLoop(items, i + 1, inner.datatypes, exts)

EmptyDict == [k \in {} |-> {}]

\* the comprehensions with sorted(..., reverse=True)
DerivedTables_Reverse(datatypes, extensions) ==
    LET rev(l) == [i \in 1..Len(l) |-> l[Len(l) + 1 - i]]
    IN [datatype_to_filetype |-> [k \in DOMAIN datatypes |-> rev(sorted(datatypes[k]))],
        filetype_to_extensions |-> [k \in DOMAIN extensions |-> rev(sorted(extensions[k]))]]

\* the dict comprehensions of lines 670-673
DerivedTables(datatypes, extensions) ==
    [datatype_to_filetype |-> [k \in DOMAIN datatypes |-> sorted(datatypes[k])],
     filetype_to_extensions |-> [k \in DOMAIN extensions |-> sorted(extensions[k])]]

\* The effect of inject_config_dependencies(cfg) on the two globals, from the
\* values old holds: raised tells whether the call ended in an exception.
inject_config_dependencies(cfg, old) ==
    IF cfg.kind # "json"
    THEN [raised |-> TRUE, MAPPINGS |-> old.MAPPINGS,
          DATATYPE_MAPPINGS |-> old.DATATYPE_MAPPINGS]                \* open / json.load
    ELSE IF "types" \notin DOMAIN cfg.doc
    THEN [raised |-> TRUE, MAPPINGS |-> cfg.doc,
          DATATYPE_MAPPINGS |-> old.DATATYPE_MAPPINGS]                \* KeyError
    ELSE LET loop == TypesLoop(cfg.doc.types, 1, EmptyDict, EmptyDict)
         IN IF loop.raised
            THEN [raised |-> TRUE, MAPPINGS |-> cfg.doc,
                  DATATYPE_MAPPINGS |-> old.DATATYPE_MAPPINGS]
            ELSE [raised |-> FALSE, MAPPINGS |-> cfg.doc,
                  DATATYPE_MAPPINGS |-> DerivedTables(loop.datatypes, loop.extensions)]

(***************************************************************************)
(* The staging area.  One user; the request's file names, the files on     *)
(* disk and their contents.  A file's content is what a parser finds in    *)
(* it: import-specification sections, garbage, or something that makes the *)
(* parser raise an exception it did not anticipate.                        *)
(***************************************************************************)
Dot == <<".">>
Slash == <<"/">>
Blank == <<" ">>

username == <<"u">>
DataDir == <<"/", "d">>
out_dir == <<"o", "u", "t">>

f_a_csv == <<"a">> \o Dot \o ext_csv
f_b_tsv == <<"b">> \o Dot \o ext_tsv
f_c_xls == <<"c">> \o Dot \o ext_xls
f_o_tsv == <<"o">> \o Dot \o ext_tsv
f_m_tsv == <<"m">> \o Dot \o ext_tsv
f_x_fa_gz == <<"x">> \o Dot \o ext_fa_gz
f_README == <<"R", "E", "A", "D", "M", "E">>
f_out_media_csv == out_dir \o Slash \o media_id \o Dot \o ext_csv
f_blank_slash_x_fa_gz == Blank \o Slash \o f_x_fa_gz \o Blank

\* the entries of the comma separated `files` query parameter
FileEntries ==
    {f_a_csv, f_b_tsv, f_c_xls, f_o_tsv, f_m_tsv, f_blank_slash_x_fa_gz}

FileLists == UNION {[1..n -> FileEntries] : n \in 0..MaxFiles}

Row1 == [id |-> "1", name |-> "x"]
Row2 == [id |-> "2", name |-> "y"]

Section(dt, tab, rows) == [datatype |-> dt, tab |-> tab, rows |-> rows]

SpecFile(format, sections) == [kind |-> "spec", format |-> format, sections |-> sections]
Garbage == [kind |-> "garbage"]
Unreadable == [kind |-> "unreadable"]

FullPath(f) == DataDir \o Slash \o username \o Slash \o f

InitialDisk ==
    (FullPath(f_a_csv) :> SpecFile(CSV, <<Section(media_id, NoneStr, <<Row1, Row2>>)>>))
    @@ (FullPath(f_b_tsv) :> SpecFile(TSV, <<Section(media_id, NoneStr, <<Row2>>)>>))
    @@ (FullPath(f_c_xls) :> SpecFile(EXCEL, <<Section(sample_set_id, <<"t", "1">>, <<Row1>>),
                                               Section(assembly_id, <<"t", "2">>, <<>>)>>))
    @@ (FullPath(f_o_tsv) :> Unreadable)
    @@ (FullPath(f_x_fa_gz) :> Garbage)
    @@ (FullPath(f_README) :> Garbage)

InitialDirs == {DataDir, DataDir \o Slash \o username}

(***************************************************************************)
(* Python helpers used by the handlers.                                    *)
(***************************************************************************)
\* s.strip() for the blank character
RECURSIVE LStrip(_)
LStrip(s) == IF s # <<>> /\ s[1] = " " THEN LStrip(Tail(s)) ELSE s

RECURSIVE RStrip(_)
RStrip(s) == IF s # <<>> /\ s[Len(s)] = " " THEN RStrip(SubSeq(s, 1, Len(s) - 1)) ELSE s

Strip(s) == LStrip(RStrip(s))

\* [f.strip() for f in files if f.strip()]
RECURSIVE StripAll(_)
StripAll(files) ==
    IF files = <<>> THEN <<>>
    ELSE IF Strip(files[1]) = <<>> THEN StripAll(Tail(files))
    ELSE <<Strip(files[1])>> \o StripAll(Tail(files))

\* pathlib.PurePath(p).name
PathName(p) ==
    LET sl == Positions(p, "/") IN IF sl = {} THEN p ELSE From(p, SetMax(sl) + 1)

\* pathlib.PurePath(p).suffix: name[i:] for i = name.rfind('.') when
\* 0 < i < len(name) - 1 (0-based), else ''
PathSuffix(p) ==
    LET name == PathName(p)
        dots == Positions(name, ".")
    IN IF dots = {} THEN <<>>
       ELSE LET q == SetMax(dots)
            IN IF q > 1 /\ q < Len(name) THEN From(name, q) ELSE <<>>

\* Path.validate_path(username, f): the path below the user's directory, and
\* the absolute path below the data directory
RECURSIVE StripSlashes(_)
StripSlashes(s) == IF s # <<>> /\ s[1] = "/" THEN StripSlashes(Tail(s)) ELSE s

validate_path(user, f) ==
    LET rel == StripSlashes(f)
        user_path == IF rel = <<>> THEN user ELSE user \o Slash \o rel
    IN [user_path |-> user_path, full_path |-> DATA_DIR \o Slash \o user_path]

(***************************************************************************)
(* AutoDetectUtils.get_mappings: classification of a file name by its      *)
(* extension, against AutoDetectUtils._MAPPINGS.                           *)
(***************************************************************************)
\* m["types"].get(key)
TypesGet(m, key) ==
    LET items == m.types
        k == key
        hit == {i \in 1..Len(items) : items[i][1] = k}
    IN IF hit = {} THEN NoneObj ELSE items[CHOOSE i \in hit : TRUE][2]

\* The classification of a name against the table m: the longest extension
\* of the name that m knows, compared in lower case; suffix is the extension
\* as the name spells it.
Classify(m, filename) ==
    LET dots == Positions(filename, ".")
        known == {q \in dots : TypesGet(m, Lower(From(filename, q + 1))) # NoneObj}
    IN IF known = {}
       THEN [mappings |-> NoneStr,
             fileinfo |-> [prefix |-> filename, suffix |-> NoneStr, file_ext_type |-> <<>>]]
       ELSE LET q == SetMin(known)
                rec == TypesGet(m, Lower(From(filename, q + 1)))
            IN [mappings |-> rec.mappings,
                fileinfo |-> [prefix |-> SubSeq(filename, 1, q - 1),
                              suffix |-> From(filename, q + 1),
                              file_ext_type |-> rec.file_ext_type]]

determine_possible_importers(filename) == Classify(MAPPINGS, filename)

get_mappings(file_list) ==
    [mappings |-> [i \in 1..Len(file_list) |-> determine_possible_importers(file_list[i]).mappings],
     fileinfo |-> [i \in 1..Len(file_list) |-> determine_possible_importers(file_list[i]).fileinfo]]

(***************************************************************************)
(* _file_type_resolver, app.py 89-98.                                      *)
(***************************************************************************)
FileTypeResolution(parser, unsupported_type) ==
    [parser |-> parser, unsupported_type |-> unsupported_type]

\* Python truthiness of an optional str
Truthy(s) == s # NoneStr /\ s # <<>>

\* lines 93-98: the resolution of a path whose fileinfo is fi
ResolutionOf(fi, path) ==
    LET ftype == IF fi.file_ext_type # <<>> THEN fi.file_ext_type[1] ELSE NoneStr
    IN IF ftype \in DOMAIN IMPSPEC_FILE_TO_PARSER
       THEN FileTypeResolution(IMPSPEC_FILE_TO_PARSER[ftype], NoneStr)
       ELSE LET ext == IF Truthy(fi.suffix) THEN fi.suffix
                       ELSE IF PathSuffix(path) # <<>> THEN Tail(PathSuffix(path))
                       ELSE PathName(path)
            IN FileTypeResolution(None, ext)

\* a resolver that takes the first entry of file_ext_type that has a parser
_file_type_resolver_AnyEntry(path) ==
    LET fi == get_mappings(<<path>>).fileinfo[1]
        hits == {i \in 1..Len(fi.file_ext_type) :
                    fi.file_ext_type[i] \in DOMAIN IMPSPEC_FILE_TO_PARSER}
    IN IF hits # {}
       THEN FileTypeResolution(IMPSPEC_FILE_TO_PARSER[fi.file_ext_type[SetMin(hits)]], NoneStr)
       ELSE ResolutionOf(fi, path)

\* a resolver that prefers the path's own suffix to the classified one
_file_type_resolver_RawSuffixFirst(path) ==
    LET fi == get_mappings(<<path>>).fileinfo[1]
        r == ResolutionOf(fi, path)
    IN IF r.parser # None \/ PathSuffix(path) = <<>> THEN r
       ELSE FileTypeResolution(None, Tail(PathSuffix(path)))

\* a resolver that looks at the disk: a file that is not there has no parser
_file_type_resolver_ChecksDisk(path) ==
    IF path \in DOMAIN disk
    THEN ResolutionOf(get_mappings(<<path>>).fileinfo[1], path)
    ELSE FileTypeResolution(None, PathName(path))

_file_type_resolver(path) == ResolutionOf(get_mappings(<<path>>).fileinfo[1], path)

(***************************************************************************)
(* import_specifications.file_parser: ErrorType, the per-format parsers    *)
(* and parse_import_specifications (every error of every file is kept).    *)
(***************************************************************************)
FILE_NOT_FOUND == "FILE_NOT_FOUND"
PARSE_FAIL == "PARSE_FAIL"
UNSUPPORTED_TYPE == "UNSUPPORTED_TYPE"
ErrorType_OTHER == "OTHER"
ErrorType == {FILE_NOT_FOUND, PARSE_FAIL, UNSUPPORTED_TYPE, ErrorType_OTHER}

SpecificationSource(file, tab) == [file |-> file, tab |-> tab]
NoSource == [file |-> NoneStr, tab |-> NoneStr]

Error(kind, source) == [error |-> kind, source |-> source]

ParseResults(results, errors) == [results |-> results, errors |-> errors]

FormatOf(parser) == CHOOSE ft \in DOMAIN IMPSPEC_FILE_TO_PARSER : IMPSPEC_FILE_TO_PARSER[ft] = parser

\* One parser on one file: the sections it reads, or its errors.
ParseFile(parser, path) ==
    IF path \notin DOMAIN disk
    THEN [sections |-> <<>>, errors |-> <<Error(FILE_NOT_FOUND, SpecificationSource(path, NoneStr))>>]
    ELSE IF disk[path].kind = "unreadable"
    THEN [sections |-> <<>>, errors |-> <<Error(ErrorType_OTHER, SpecificationSource(path, NoneStr))>>]
    ELSE IF disk[path].kind = "garbage" \/ disk[path].format # FormatOf(parser)
            \/ disk[path].sections = <<>>
    THEN [sections |-> <<>>, errors |-> <<Error(PARSE_FAIL, SpecificationSource(path, NoneStr))>>]
    ELSE [sections |-> disk[path].sections, errors |-> <<>>]

\* Merge the sections of one file into the results; a datatype seen before
\* is a PARSE_FAIL of the later section.
RECURSIVE MergeSections(_, _, _, _, _)
MergeSections(path, sections, i, results, errors) ==
    IF i > Len(sections) THEN [results |-> results, errors |-> errors]
    ELSE LET sec == sections[i]
             src == SpecificationSource(path, sec.tab)
         IN IF sec.datatype \in DOMAIN results
            THEN MergeSections(path, sections, i + 1, results,
                               Append(errors, Error(PARSE_FAIL, src)))
            ELSE MergeSections(path, sections, i + 1,
                               results @@ (sec.datatype :> [result |-> sec.rows, source |-> src]),
                               errors)

RECURSIVE ParseLoop(_, _, _, _)
ParseLoop(paths, i, results, errors) ==
    IF i > Len(paths) THEN [results |-> results, errors |-> errors]
    ELSE LET file_type == _file_type_resolver(paths[i])
         IN IF file_type.unsupported_type # NoneStr
            THEN ParseLoop(paths, i + 1, results,
                           Append(errors, Error(UNSUPPORTED_TYPE,
                                                SpecificationSource(paths[i], NoneStr))))
            ELSE LET res == ParseFile(file_type.parser, paths[i])
                 IN IF res.errors # <<>>
                    THEN ParseLoop(paths, i + 1, results, errors \o res.errors)
                    ELSE LET m == MergeSections(paths[i], res.sections, 1, results, errors)
                         IN ParseLoop(paths, i + 1, m.results, m.errors)

NoResults == [k \in {} |-> NoneObj]

\* no_paths is the kind of the one error a call without paths ends in
parse_import_specifications(paths, no_paths) ==
    IF paths = <<>> THEN ParseResults(NoResults, <<Error(no_paths, NoSource)>>)
    ELSE LET r == ParseLoop(paths, 1, NoResults, <<>>)
         IN IF r.errors # <<>> THEN ParseResults(NoResults, r.errors)
            ELSE ParseResults(r.results, <<>>)

\* app_error_formatter.format_import_spec_errors: each error with the
\* caller-visible path of its file
format_import_spec_errors(errors, paths) ==
    [i \in 1..Len(errors) |->
        [type |-> errors[i].error,
         file |-> IF errors[i].source.file = NoneStr THEN NoneStr
                  ELSE paths[errors[i].source.file],
         tab |-> errors[i].source.tab]]

(***************************************************************************)
(* bulk_specification, app.py 101-135 (after the await of line 110).       *)
(***************************************************************************)
\* lines 114-117: the dict paths, as its keys in insertion order and its values
RECURSIVE PathKeys(_, _)
PathKeys(files, user) ==
    IF files = <<>> THEN <<>>
    ELSE LET rest == PathKeys(SubSeq(files, 1, Len(files) - 1), user)
             k == validate_path(user, files[Len(files)]).full_path
         IN IF k \in Range(rest) THEN rest ELSE Append(rest, k)

PathValues(files, user) ==
    [k \in Range(PathKeys(files, user)) |->
        LET last == SetMax({i \in 1..Len(files) : validate_path(user, files[i]).full_path = k})
        IN validate_path(user, files[last]).user_path]

\* the classes tested in the other order: a missing file first
ErrorStatus_NotFoundFirst(errtypes) ==
    IF FILE_NOT_FOUND \in errtypes THEN 404
    ELSE IF errtypes \ {ErrorType_OTHER} # {} THEN 400
    ELSE 500

\* lines 128-135: the response class for a set of error kinds
ErrorStatus(errtypes) ==
    IF errtypes \ {ErrorType_OTHER, FILE_NOT_FOUND} # {} THEN 400
    ELSE IF errtypes \ {ErrorType_OTHER} # {} THEN 404
    ELSE 500

\* a response that is the success payload whatever the parse returned
BulkResponse_AlwaysSuccess(res, paths) ==
    [handler |-> "bulk_specification", status |-> 200,
     types |-> [dt \in DOMAIN res.results |-> res.results[dt].result],
     files |-> [dt \in DOMAIN res.results |->
                   [file |-> paths[res.results[dt].source.file],
                    tab |-> res.results[dt].source.tab]]]

\* a response that reports the first error only
BulkResponse_FirstError(res, paths) ==
    IF DOMAIN res.results # {}
    THEN [handler |-> "bulk_specification", status |-> 200,
          types |-> [dt \in DOMAIN res.results |-> res.results[dt].result],
          files |-> [dt \in DOMAIN res.results |->
                        [file |-> paths[res.results[dt].source.file],
                         tab |-> res.results[dt].source.tab]]]
    ELSE [handler |-> "bulk_specification",
          status |-> IF res.errors[1].error \in {PARSE_FAIL, UNSUPPORTED_TYPE} THEN 400
                     ELSE IF res.errors[1].error = FILE_NOT_FOUND THEN 404 ELSE 500,
          errors |-> format_import_spec_errors(<<res.errors[1]>>, paths)]

\* a response that names each file by the path the parser was given
BulkResponse_AbsolutePath(res, paths) ==
    IF DOMAIN res.results # {}
    THEN [handler |-> "bulk_specification", status |-> 200,
          types |-> [dt \in DOMAIN res.results |-> res.results[dt].result],
          files |-> [dt \in DOMAIN res.results |->
                        [file |-> res.results[dt].source.file,
                         tab |-> res.results[dt].source.tab]]]
    ELSE [handler |-> "bulk_specification",
          status |-> ErrorStatus({res.errors[i].error : i \in 1..Len(res.errors)}),
          errors |-> format_import_spec_errors(res.errors, paths)]

\* lines 123-135
BulkResponse(res, paths) ==
    IF DOMAIN res.results # {}
    THEN [handler |-> "bulk_specification", status |-> 200,
          types |-> [dt \in DOMAIN res.results |-> res.results[dt].result],
          files |-> [dt \in DOMAIN res.results |->
                        [file |-> paths[res.results[dt].source.file],
                         tab |-> res.results[dt].source.tab]]]
    ELSE [handler |-> "bulk_specification",
          status |-> ErrorStatus({res.errors[i].error : i \in 1..Len(res.errors)}),
          errors |-> format_import_spec_errors(res.errors, paths)]

(***************************************************************************)
(* import_specifications.file_writers: the precondition on the template    *)
(* specifications, then one file per datatype (CSV, TSV) or one workbook   *)
(* with one sheet per datatype (EXCEL).                                    *)
(***************************************************************************)
ParamIds(spec) == {spec.order_and_display[i][1] : i \in 1..Len(spec.order_and_display)}

\* every row's key set equals the order_and_display parameter ids
SpecOk(spec) == \A i \in 1..Len(spec.data) : DOMAIN spec.data[i] = ParamIds(spec)

CanonicalExt(format) ==
    IF format = CSV THEN ext_csv ELSE IF format = TSV THEN ext_tsv ELSE ext_xls

excel_workbook == <<"i", "m", "p", "o", "r", "t">>

TemplateName(format, dt) ==
    IF format = EXCEL THEN excel_workbook \o Dot \o CanonicalExt(format)
    ELSE dt \o Dot \o CanonicalExt(format)

TemplateContent(format, types, dt) ==
    IF format = EXCEL
    THEN LET dts == sorted(DOMAIN types)
         IN SpecFile(EXCEL, [i \in 1..Len(dts) |-> Section(dts[i], dts[i], types[dts[i]].data)])
    ELSE SpecFile(format, <<Section(dt, NoneStr, types[dt].data)>>)

\* writer(folder, types): raised for ImportSpecWriteException, else the
\* files written (name and content per datatype)
writer(format, folder, types) ==
    IF \E dt \in DOMAIN types : ~SpecOk(types[dt])
    THEN [raised |-> TRUE, files |-> [dt \in {} |-> <<>>], written |-> [f \in {} |-> NoneObj]]
    ELSE [raised |-> FALSE,
          files |-> [dt \in DOMAIN types |-> TemplateName(format, dt)],
          written |-> [f \in {folder \o Slash \o TemplateName(format, dt) : dt \in DOMAIN types} |->
                         LET dt == CHOOSE d \in DOMAIN types :
                                       f = folder \o Slash \o TemplateName(format, d)
                         IN TemplateContent(format, types, dt)]]

\* _IMPSPEC_FILE_TO_WRITER
IMPSPEC_FILE_TO_WRITER == {CSV, TSV, EXCEL}

Display == <<<<"id", "ID">>, <<"name", "Name">>>>
TemplateSpec(rows) == [order_and_display |-> Display, data |-> rows]

WriteTypes ==
    { (media_id :> TemplateSpec(<<Row1>>)),
      (media_id :> TemplateSpec(<<Row1>>)) @@ (sample_set_id :> TemplateSpec(<<[id |-> "1"]>>)),
      (media_id :> TemplateSpec(<<Row1, [id |-> "2", name |-> "y", extra |-> "z"]>>)) }

PDF == <<"P", "D", "F">>

\* what request.json() finds in the body of a write request
WriteBodies ==
    {[json |-> "malformed"], [json |-> "list"]}
    \cup {[json |-> "dict", output_directory |-> d, output_file_type |-> t, types |-> ty] :
             d \in {out_dir, f_a_csv, NoneStr}, t \in {CSV, TSV, EXCEL, PDF, NoneStr},
             ty \in WriteTypes}

APP_JSON == "application/json"

\* _createJSONErrorResponse(error_text, error_class)
JSONErrorResponse(error_text, status) ==
    [handler |-> "write_bulk_specification", status |-> status, error |-> error_text]

\* an exception that leaves the handler: aiohttp answers 500
ServerError == [handler |-> "write_bulk_specification", status |-> 500]

\* the error texts of write_bulk_specification
ERR_CONTENT_TYPE == "Required content-type is application/json"
ERR_CONTENT_LENGTH == "The content-length header is required and must be > 0"
ERR_NOT_MAPPING == "The top level JSON element must be a mapping"
ERR_DIRECTORY == "output_directory is required and must be a string"
ERR_FILE_TYPE == "Invalid output_file_type"
ERR_WRITER == "ImportSpecWriteException"

(***************************************************************************)
(* The state machine.  A handler runs without interruption from one await  *)
(* to the next (one event loop); tasks counts the handlers suspended at    *)
(* each await.  The request a handler reads is chosen where it is read.    *)
(***************************************************************************)
AT_BULK_AUTH == "bulk_specification:110"
AT_WRITE_AUTH == "write_bulk_specification:166"
AT_WRITE_JSON == "write_bulk_specification:177"
Awaits == {AT_BULK_AUTH, AT_WRITE_AUTH, AT_WRITE_JSON}

RECURSIVE Sum(_, _)
Sum(f, S) == IF S = {} THEN 0 ELSE LET x == CHOOSE y \in S : TRUE IN f[x] + Sum(f, S \ {x})

InFlight == Sum(tasks, Awaits)

Suspend(at) == [tasks EXCEPT ![at] = @ + 1]
Resume(at) == [tasks EXCEPT ![at] = @ - 1]
Move(from, to) == [tasks EXCEPT ![from] = @ - 1, ![to] = @ + 1]

NoResponse == [handler |-> None, status |-> 0]
NotParsed == [keys |-> <<>>]

\* the configuration documents the server is started with
MainConfigs ==
    { [kind |-> "missing"], [kind |-> "invalid"], [kind |-> "json", doc |-> [version |-> 1]],
      [kind |-> "json", doc |-> [types |->
          << <<ext_csv, Rec(<<CSV>>, <<sample_set_id>>)>>,
             <<ext_tsv, Rec(<<TSV>>, <<media_id, sample_set_id>>)>>,
             <<ext_xls, Rec(<<EXCEL>>, <<sample_set_id>>)>> >>]],
      [kind |-> "json", doc |-> [types |->
          << <<ext_csv, Rec(<<FASTA, CSV>>, <<assembly_id, sample_set_id>>)>>,
             <<ext_fa_gz, Rec(<<FASTA>>, <<assembly_id>>)>>,
             <<ext_tsv, Rec(<<TSV, FASTA>>, <<sample_set_id, media_id, sample_set_id>>)>> >>]],
      [kind |-> "json", doc |-> [types |->
          << <<ext_csv, Rec(<<CSV>>, <<sample_set_id>>)>>,
             <<ext_fa, [file_ext_type |-> <<FASTA>>]>> >>]] }

\* GenerateMappings.py is not run, no upload request is being handled
NotRun == [pc |-> "not run"]
NoUpload == [pc |-> "none"]

InitWith(configs) ==
    /\ app = "init"
    /\ DATA_DIR = NoneStr
    /\ config \in configs
    /\ MAPPINGS = NoneObj
    /\ DATATYPE_MAPPINGS = NoneObj
    /\ disk = InitialDisk
    /\ dirs = InitialDirs
    /\ tasks = [a \in Awaits |-> 0]
    /\ response = NoResponse
    /\ parsed = NotParsed
    /\ gen = NotRun
    /\ upload = NoUpload

Init == InitWith(MainConfigs)

\* an app_factory that catches the exception and returns the application
app_factory_Swallows ==
    /\ app = "init"
    /\ LET r == inject_config_dependencies(
                    config, [MAPPINGS |-> MAPPINGS, DATATYPE_MAPPINGS |-> DATATYPE_MAPPINGS])
       IN /\ DATA_DIR' = DataDir
          /\ MAPPINGS' = r.MAPPINGS
          /\ DATATYPE_MAPPINGS' = r.DATATYPE_MAPPINGS
          /\ app' = "serving"
    /\ UNCHANGED <<config, disk, dirs, tasks, response, parsed, gen, upload>>

\* app_factory, app.py 676-695: an exception of inject_config_dependencies
\* leaves app_factory without returning an application
app_factory ==
    /\ app = "init"
    /\ LET r == inject_config_dependencies(
                    config, [MAPPINGS |-> MAPPINGS, DATATYPE_MAPPINGS |-> DATATYPE_MAPPINGS])
       IN /\ DATA_DIR' = DataDir
          /\ MAPPINGS' = r.MAPPINGS
          /\ DATATYPE_MAPPINGS' = r.DATATYPE_MAPPINGS
          /\ app' = IF r.raised THEN "failed" ELSE "serving"
    /\ UNCHANGED <<config, disk, dirs, tasks, response, parsed, gen, upload>>

\* The server routes a request to a handler only of an application that
\* app_factory returned; a response a handler returned is sent before the
\* event loop runs the next handler.
Serving == app = "serving" /\ response = NoResponse

\* the response of the last handler goes out to its client
send_response ==
    /\ response # NoResponse
    /\ response' = NoResponse
    /\ parsed' = NotParsed
    /\ UNCHANGED <<app, DATA_DIR, config, MAPPINGS, DATATYPE_MAPPINGS, disk, dirs, tasks, gen,
                   upload>>

\* an importer_filetypes that hands out the table and empties the global's
\* datatype_to_filetype
importer_filetypes_Clears ==
    /\ app = "serving" /\ response = NoResponse
    /\ response' = [handler |-> "importer_filetypes", status |-> 200, data |-> DATATYPE_MAPPINGS]
    /\ DATATYPE_MAPPINGS' = [DATATYPE_MAPPINGS EXCEPT !.datatype_to_filetype = <<>>]
    /\ UNCHANGED <<app, DATA_DIR, config, MAPPINGS, disk, dirs, tasks, parsed, gen, upload>>

\* importer_filetypes, app.py 56-67
importer_filetypes ==
    /\ Serving
    /\ response' = [handler |-> "importer_filetypes", status |-> 200, data |-> DATATYPE_MAPPINGS]
    /\ UNCHANGED <<app, DATA_DIR, config, MAPPINGS, DATATYPE_MAPPINGS, disk, dirs, tasks,
                   parsed, gen, upload>>

MappingsFileLists == UNION {[1..n -> {f_a_csv, f_x_fa_gz, f_README}] : n \in 0..MaxFiles}

\* importer_mappings, app.py 70-86
importer_mappings ==
    /\ Serving
    /\ \E file_list \in MappingsFileLists :
          response' = IF Len(file_list) = 0
                      THEN [handler |-> "importer_mappings", status |-> 400]
                      ELSE [handler |-> "importer_mappings", status |-> 200,
                            data |-> get_mappings(file_list)]
    /\ UNCHANGED <<app, DATA_DIR, config, MAPPINGS, DATATYPE_MAPPINGS, disk, dirs, tasks,
                   parsed, gen, upload>>

\* a request arrives and its handler runs to its first await
bulk_specification_request ==
    /\ Serving
    /\ InFlight < MaxTasks
    /\ tasks' = Suspend(AT_BULK_AUTH)
    /\ UNCHANGED <<app, DATA_DIR, config, MAPPINGS, DATATYPE_MAPPINGS, disk, dirs, response,
                   parsed, gen, upload>>

write_bulk_specification_request ==
    /\ Serving
    /\ InFlight < MaxTasks
    /\ tasks' = Suspend(AT_WRITE_AUTH)
    /\ UNCHANGED <<app, DATA_DIR, config, MAPPINGS, DATATYPE_MAPPINGS, disk, dirs, response,
                   parsed, gen, upload>>

\* authorize_request, app.py 603-617, raises: the handler ends there
authorize_request_raises ==
    /\ Serving
    /\ \E at \in {AT_BULK_AUTH, AT_WRITE_AUTH} :
          /\ tasks[at] > 0
          /\ tasks' = Resume(at)
          /\ response' = [handler |-> IF at = AT_BULK_AUTH THEN "bulk_specification"
                                       ELSE "write_bulk_specification",
                           status |-> 401]
    /\ UNCHANGED <<app, DATA_DIR, config, MAPPINGS, DATATYPE_MAPPINGS, disk, dirs, parsed,
                   gen, upload>>

\* bulk_specification, app.py 110-135, from the return of authorize_request
bulk_specification ==
    /\ Serving
    /\ tasks[AT_BULK_AUTH] > 0
    /\ tasks' = Resume(AT_BULK_AUTH)
    /\ \E entries \in FileLists :
        \E no_paths \in IF StripAll(entries) = <<>> THEN ErrorType ELSE {ErrorType_OTHER} :
          LET files == StripAll(entries)
              keys == PathKeys(files, username)
              paths == PathValues(files, username)
              res == parse_import_specifications(keys, no_paths)
          IN /\ response' = BulkResponse(res, paths)
             /\ parsed' = [keys |-> keys, paths |-> paths, res |-> res, files |-> files]
    /\ UNCHANGED <<app, DATA_DIR, config, MAPPINGS, DATATYPE_MAPPINGS, disk, dirs, gen, upload>>

\* write_bulk_specification, app.py 166-177: the header checks, up to the
\* await of request.json()
write_bulk_specification_headers ==
    /\ Serving
    /\ tasks[AT_WRITE_AUTH] > 0
    /\ \E content_type \in {APP_JSON, "text/plain"}, content_length \in {0, 1} :
          IF content_type # APP_JSON
          THEN /\ tasks' = Resume(AT_WRITE_AUTH)
               /\ response' = JSONErrorResponse(ERR_CONTENT_TYPE, 415)
          ELSE IF content_length = 0
          THEN /\ tasks' = Resume(AT_WRITE_AUTH)
               /\ response' = JSONErrorResponse(ERR_CONTENT_LENGTH, 411)
          ELSE /\ tasks' = Move(AT_WRITE_AUTH, AT_WRITE_JSON)
               /\ UNCHANGED response
    /\ UNCHANGED <<app, DATA_DIR, config, MAPPINGS, DATATYPE_MAPPINGS, disk, dirs, parsed,
                   gen, upload>>

\* os.makedirs(p, exist_ok=True) fails when p is a file
MakedirsFails(p) == p \in DOMAIN disk

\* a handler that writes the datatypes whose rows are valid and skips the
\* others
write_bulk_specification_SkipsBadTypes ==
    /\ app = "serving" /\ response = NoResponse
    /\ tasks[AT_WRITE_JSON] > 0
    /\ tasks' = Resume(AT_WRITE_JSON)
    /\ \E data \in {d \in WriteBodies : d.json = "dict"} :
          /\ parsed' = [keys |-> <<>>, data |-> data]
          /\ IF \/ data.output_directory = NoneStr
                \/ data.output_file_type \notin IMPSPEC_FILE_TO_WRITER
                \/ MakedirsFails(validate_path(username, data.output_directory).full_path)
             THEN /\ response' = ServerError
                  /\ UNCHANGED <<disk, dirs>>
             ELSE LET folder == validate_path(username, data.output_directory)
                      valid == {dt \in DOMAIN data.types : SpecOk(data.types[dt])}
                      w == writer(data.output_file_type, folder.full_path,
                                  [dt \in valid |-> data.types[dt]])
                  IN /\ dirs' = dirs \cup {folder.full_path}
                     /\ disk' = w.written @@ disk
                     /\ response' =
                          [handler |-> "write_bulk_specification", status |-> 200,
                           output_file_type |-> data.output_file_type,
                           files_created |->
                              [ty \in DOMAIN w.files |->
                                  folder.user_path \o Slash \o w.files[ty]]]
    /\ UNCHANGED <<app, DATA_DIR, config, MAPPINGS, DATATYPE_MAPPINGS, gen, upload>>

\* a handler that makes the directory before it looks at output_file_type
write_bulk_specification_MakedirsFirst ==
    /\ app = "serving" /\ response = NoResponse
    /\ tasks[AT_WRITE_JSON] > 0
    /\ tasks' = Resume(AT_WRITE_JSON)
    /\ \E data \in {d \in WriteBodies : d.json = "dict"} :
          /\ parsed' = [keys |-> <<>>, data |-> data]
          /\ UNCHANGED disk
          /\ IF data.output_directory = NoneStr
             THEN /\ response' = JSONErrorResponse(ERR_DIRECTORY, 400)
                  /\ UNCHANGED dirs
             ELSE IF MakedirsFails(validate_path(username, data.output_directory).full_path)
             THEN /\ response' = ServerError
                  /\ UNCHANGED dirs
             ELSE /\ dirs' = dirs \cup {validate_path(username, data.output_directory).full_path}
                  /\ response' = JSONErrorResponse(ERR_FILE_TYPE, 400)
    /\ UNCHANGED <<app, DATA_DIR, config, MAPPINGS, DATATYPE_MAPPINGS, gen, upload>>

\* a handler with an await between os.makedirs and the writer: the step up
\* to that await
write_bulk_specification_AwaitsAfterMakedirs ==
    /\ app = "serving" /\ response = NoResponse
    /\ tasks[AT_WRITE_JSON] > 0
    /\ dirs' = dirs \cup {validate_path(username, out_dir).full_path}
    /\ UNCHANGED <<app, DATA_DIR, config, MAPPINGS, DATATYPE_MAPPINGS, disk, tasks, response,
                   parsed, gen, upload>>

\* write_bulk_specification, app.py 177-194, from the return of request.json()
write_bulk_specification ==
    /\ Serving
    /\ tasks[AT_WRITE_JSON] > 0
    /\ tasks' = Resume(AT_WRITE_JSON)
    /\ \E data \in WriteBodies :
          /\ parsed' = [keys |-> <<>>, data |-> data]
          /\ IF data.json = "malformed"
             THEN /\ response' = ServerError
                  /\ UNCHANGED <<disk, dirs>>
             ELSE IF data.json # "dict"
             THEN /\ response' = JSONErrorResponse(ERR_NOT_MAPPING, 400)
                  /\ UNCHANGED <<disk, dirs>>
             ELSE IF data.output_directory = NoneStr
             THEN /\ response' = JSONErrorResponse(ERR_DIRECTORY, 400)
                  /\ UNCHANGED <<disk, dirs>>
             ELSE IF data.output_file_type \notin IMPSPEC_FILE_TO_WRITER
             THEN /\ response' = JSONErrorResponse(ERR_FILE_TYPE, 400)
                  /\ UNCHANGED <<disk, dirs>>
             ELSE LET folder == validate_path(username, data.output_directory)
                      w == writer(data.output_file_type, folder.full_path, data.types)
                  IN IF MakedirsFails(folder.full_path)
                     THEN /\ response' = ServerError
                          /\ UNCHANGED <<disk, dirs>>
                     ELSE /\ dirs' = dirs \cup {folder.full_path}
                          /\ IF w.raised
                             THEN /\ response' = JSONErrorResponse(ERR_WRITER, 400)
                                  /\ UNCHANGED disk
                             ELSE /\ disk' = w.written @@ disk
                                  /\ response' =
                                       [handler |-> "write_bulk_specification", status |-> 200,
                                        output_file_type |-> data.output_file_type,
                                        files_created |->
                                           [ty \in DOMAIN w.files |->
                                               folder.user_path \o Slash \o w.files[ty]]]
    /\ UNCHANGED <<app, DATA_DIR, config, MAPPINGS, DATATYPE_MAPPINGS, gen, upload>>

\* the client goes away while its handler is suspended: the await raises
\* CancelledError and the handler ends there
request_cancelled ==
    /\ Serving
    /\ \E at \in Awaits :
          /\ tasks[at] > 0
          /\ tasks' = Resume(at)
    /\ UNCHANGED <<app, DATA_DIR, config, MAPPINGS, DATATYPE_MAPPINGS, disk, dirs, response,
                   parsed, gen, upload>>

Next ==
    \/ app_factory
    \/ importer_filetypes
    \/ importer_mappings
    \/ bulk_specification_request
    \/ write_bulk_specification_request
    \/ authorize_request_raises
    \/ bulk_specification
    \/ write_bulk_specification_headers
    \/ write_bulk_specification
    \/ request_cancelled
    \/ send_response

Spec == Init /\ [][Next]_vars

\* Startup alone, from every configuration document within the bounds.
InitBuild == InitWith(ConfigDocs)

NextBuild == app_factory

SpecBuild == InitBuild /\ [][NextBuild]_vars

\* _file_type_resolver applied to one path of the staging area
ProbeNames ==
    {Strip(f) : f \in FileEntries}
    \cup {f_out_media_csv, f_README,
          Dot \o ext_csv,                          \* ".csv"
          <<"x">> \o Dot,                          \* "x."
          <<"x">> \o Dot \o <<"C", "S", "V">>,     \* "x.CSV"
          <<"x">> \o Dot \o <<"z", "z">>,          \* "x.zz"
          <<"x">> \o Dot \o ext_fa \o Dot \o ext_xls,   \* "x.fa.xls"
          <<"x">> \o Dot \o ext_csv \o Dot \o <<"z", "z">>}

ProbePaths == {validate_path(username, n).full_path : n \in ProbeNames}

resolve_file_type ==
    /\ Serving
    /\ \E n \in ProbeNames :
          LET path == validate_path(username, n).full_path
          IN response' = [handler |-> "_file_type_resolver", status |-> 0, path |-> path,
                          resolution |-> _file_type_resolver(path)]
    /\ UNCHANGED <<app, DATA_DIR, config, MAPPINGS, DATATYPE_MAPPINGS, disk, dirs, tasks,
                   parsed, gen, upload>>

\* Startup from every configuration document within the bounds, then the
\* resolver on the probe paths.
NextResolve == app_factory \/ resolve_file_type \/ send_response

SpecResolve == InitBuild /\ [][NextResolve]_vars

(***************************************************************************)
(* A later call of inject_config_dependencies in the same process          *)
(* (app_factory called again), with the document then found at the         *)
(* configured location.                                                    *)
(***************************************************************************)
ReloadConfigs ==
    MainConfigs \cup {[kind |-> "json", doc |-> [types |-> <<r>>]] : r \in RecordPool}

reload_config ==
    /\ app # "init"
    /\ \E cfg \in ReloadConfigs :
          LET r == inject_config_dependencies(
                       cfg, [MAPPINGS |-> MAPPINGS, DATATYPE_MAPPINGS |-> DATATYPE_MAPPINGS])
          IN /\ config' = cfg
             /\ MAPPINGS' = r.MAPPINGS
             /\ DATATYPE_MAPPINGS' = r.DATATYPE_MAPPINGS
             /\ app' = IF r.raised THEN "failed" ELSE "serving"
    /\ UNCHANGED <<DATA_DIR, disk, dirs, tasks, response, parsed, gen, upload>>

NextReload == app_factory \/ reload_config

SpecReload == InitWith(ReloadConfigs) /\ [][NextReload]_vars

(***************************************************************************)
(* upload_files_chunked, app.py 405-434: the loop that scans the parts of  *)
(* the multipart body for destPath and uploads.                            *)
(***************************************************************************)
\* the limit of the loop's counter, line 420
CounterLimit == 100

\* the names a part may carry, and what part.text() may give for destPath
PartNames == {"destPath", "uploads", "other"}
DestPaths == {<<>>, out_dir}

\* lines 413-418: a request with a body reaches the loop
upload_files_chunked_request ==
    /\ app = "serving"
    /\ upload.pc # "loop"
    /\ \E has_body \in BOOLEAN :
          upload' = IF ~has_body THEN [pc |-> "raised", status |-> 400]
                    ELSE [pc |-> "loop", counter |-> 0, read |-> 0,
                          destPath |-> NoneStr, user_file |-> FALSE]
    /\ UNCHANGED <<app, DATA_DIR, config, MAPPINGS, DATATYPE_MAPPINGS, disk, dirs, tasks,
                   response, parsed, gen>>

\* lines 433-434, once the loop is left
AfterLoop(u) ==
    IF ~(u.user_file /\ u.destPath # NoneStr /\ u.destPath # <<>>)
    THEN [pc |-> "raised", status |-> 400, counter |-> u.counter, read |-> u.read]
    ELSE [u EXCEPT !.pc = "receiving"]

\* lines 419-431: one pass of the loop, from reader.next(); the pass that
\* leaves the loop goes on to line 433
upload_next_part ==
    /\ upload.pc = "loop"
    /\ upload.read < MaxParts
    /\ \/ \E name \in PartNames, text \in DestPaths :
             LET u == [upload EXCEPT !.read = @ + 1]
             IN upload' =
                  IF name = "destPath"
                  THEN [u EXCEPT !.destPath = text]
                  ELSE IF name = "uploads"
                  THEN AfterLoop([u EXCEPT !.user_file = TRUE])
                  ELSE IF u.counter + 1 < CounterLimit
                  THEN [u EXCEPT !.counter = @ + 1]
                  ELSE AfterLoop([u EXCEPT !.counter = @ + 1])
       \/ \* reader.next() returns None at the end of the body: part.name raises
          upload' = [pc |-> "raised", status |-> 500, counter |-> upload.counter,
                     read |-> upload.read]
    /\ UNCHANGED <<app, DATA_DIR, config, MAPPINGS, DATATYPE_MAPPINGS, disk, dirs, tasks,
                   response, parsed, gen>>

NextUpload == app_factory \/ upload_files_chunked_request \/ upload_next_part

SpecUpload == InitWith(MainConfigs) /\ [][NextUpload]_vars

(***************************************************************************)
(* autodetect/GenerateMappings.py: the extension-to-app mapping, built     *)
(* from the tables of autodetect.Mappings.  A Python dict is its keys in   *)
(* insertion order and its values.                                         *)
(***************************************************************************)
\* the names "from staging_service.autodetect.Mappings import *" brings in,
\* besides those defined above
Mappings ==
    [SRA |-> <<"S", "R", "A">>,
     FASTQ |-> <<"F", "A", "S", "T", "Q">>,
     GENBANK |-> <<"G", "E", "N", "B", "A", "N", "K">>,
     GFF |-> <<"G", "F", "F">>,
     ZIP |-> <<"Z", "I", "P">>,
     JSON |-> <<"J", "S", "O", "N">>,
     SBML |-> <<"S", "B", "M", "L">>,
     sra_reads_id |-> <<"s", "r", "a", "_", "r", "e", "a", "d", "s">>,
     fastq_reads_interleaved_id |-> <<"f", "a", "s", "t", "q", "_", "r", "e", "a", "d", "s", "_", "i", "n", "t", "e", "r", "l", "e", "a", "v", "e", "d">>,
     fastq_reads_noninterleaved_id |-> <<"f", "a", "s", "t", "q", "_", "r", "e", "a", "d", "s", "_", "n", "o", "n", "i", "n", "t", "e", "r", "l", "e", "a", "v", "e", "d">>,
     gff_genome_id |-> <<"g", "f", "f", "_", "g", "e", "n", "o", "m", "e">>,
     gff_metagenome_id |-> <<"g", "f", "f", "_", "m", "e", "t", "a", "g", "e", "n", "o", "m", "e">>,
     genbank_genome_id |-> <<"g", "e", "n", "b", "a", "n", "k", "_", "g", "e", "n", "o", "m", "e">>,
     decompress_id |-> <<"d", "e", "c", "o", "m", "p", "r", "e", "s", "s">>,
     expression_matrix_id |-> <<"e", "x", "p", "r", "e", "s", "s", "i", "o", "n", "_", "m", "a", "t", "r", "i", "x">>,
     metabolic_annotations_id |-> <<"m", "e", "t", "a", "b", "o", "l", "i", "c", "_", "a", "n", "n", "o", "t", "a", "t", "i", "o", "n">>,
     metabolic_annotations_bulk_id |-> <<"m", "e", "t", "a", "b", "o", "l", "i", "c", "_", "a", "n", "n", "o", "t", "a", "t", "i", "o", "n", "_", "b", "u", "l", "k">>,
     fba_model_id |-> <<"f", "b", "a", "_", "m", "o", "d", "e", "l">>,
     phenotype_set_id |-> <<"p", "h", "e", "n", "o", "t", "y", "p", "e", "_", "s", "e", "t">>,
     escher_map_id |-> <<"e", "s", "c", "h", "e", "r", "_", "m", "a", "p">>]

\* lines 32-45, in insertion order
file_format_to_app_mapping ==
    << <<Mappings.SRA, <<Mappings.sra_reads_id>>>>,
       <<Mappings.FASTQ, <<Mappings.fastq_reads_interleaved_id, Mappings.fastq_reads_noninterleaved_id>>>>,
       <<FASTA, <<assembly_id, Mappings.gff_genome_id, Mappings.gff_metagenome_id>>>>,
       <<Mappings.GENBANK, <<Mappings.genbank_genome_id>>>>,
       <<Mappings.GFF, <<Mappings.gff_genome_id, Mappings.gff_metagenome_id>>>>,
       <<Mappings.ZIP, <<Mappings.decompress_id>>>>,
       <<CSV, <<sample_set_id>>>>,
       <<TSV, <<media_id, Mappings.expression_matrix_id, Mappings.metabolic_annotations_id,
                Mappings.metabolic_annotations_bulk_id, Mappings.fba_model_id, Mappings.phenotype_set_id>>>>,
       <<EXCEL, <<sample_set_id, media_id, Mappings.fba_model_id>>>>,
       <<Mappings.JSON, <<Mappings.escher_map_id>>>>,
       <<Mappings.SBML, <<Mappings.fba_model_id>>>> >>

FileFormats == {file_format_to_app_mapping[i][1] : i \in 1..Len(file_format_to_app_mapping)}

\* The extensions autodetect.Mappings registers: each of the first MaxExts
\* of the pool under one file format, or under none.
Registered == SubSeq(<<<<"g", "f", "f", "3">>, ext_fa, ext_xls, <<"j", "s", "o", "n">>>>, 1, MaxExts)

\* extension_to_file_format_mapping, and file_format_to_extension_mapping
\* as its inverse
ExtensionTables ==
    UNION {[exts -> FileFormats] : exts \in SUBSET Range(Registered)}

ExtensionsOf(e2f, format) == SelectSeq(Registered, LAMBDA e : e \in DOMAIN e2f /\ e2f[e] = format)

EmptyOrderedDict == [keys |-> <<>>, val |-> [k \in {} |-> <<>>]]

\* d[k] = xs: the list of a key already present is replaced
DictExtend_Assign(d, k, xs) ==
    IF k \in {d.keys[i] : i \in 1..Len(d.keys)} THEN [d EXCEPT !.val[k] = xs]
    ELSE [keys |-> Append(d.keys, k), val |-> d.val @@ (k :> xs)]

\* defaultdict(list): d[k].extend(xs); d[k].append(x) is d[k].extend([x])
DictExtend(d, k, xs) ==
    IF k \in Range(d.keys) THEN [d EXCEPT !.val[k] = @ \o xs]
    ELSE [keys |-> Append(d.keys, k), val |-> d.val @@ (k :> xs)]

\* lines 49-50: for app_id in apps
RECURSIVE AppIdLoop(_, _, _, _)
AppIdLoop(apps, j, extensions, d) ==
    IF j > Len(apps) THEN d
    ELSE AppIdLoop(apps, j + 1, extensions, DictExtend(d, apps[j], extensions))

\* line 48: for filecat, apps in file_format_to_app_mapping.items()
RECURSIVE FilecatLoop(_, _, _)
FilecatLoop(f2e, i, d) ==
    IF i > Len(file_format_to_app_mapping) THEN d
    ELSE FilecatLoop(f2e, i + 1,
                     AppIdLoop(file_format_to_app_mapping[i][2], 1,
                               f2e[file_format_to_app_mapping[i][1]], d))

\* lines 71-82: for extension in app_id_to_extensions[app_id]
RECURSIVE ExtensionLoop(_, _, _, _, _)
ExtensionLoop(app_id, extensions, j, e2f, m) ==
    IF j > Len(extensions) THEN m
    ELSE ExtensionLoop(app_id, extensions, j + 1, e2f,
                       \* extensions_mapping[extension].append({...})
                       DictExtend(m, extensions[j],
                                  <<[id |-> app_id, app_weight |-> 1,
                                     file_type |-> <<e2f[extensions[j]]>>]>>))

\* line 68: for app_id in app_id_to_extensions
RECURSIVE AppLoop(_, _, _, _)
AppLoop(a2e, i, e2f, m) ==
    IF i > Len(a2e.keys) THEN m
    ELSE AppLoop(a2e, i + 1, e2f,
                 ExtensionLoop(a2e.keys[i], a2e.val[a2e.keys[i]], 1, e2f, m))

\* from staging_service.autodetect.Mappings import *
InitGenerate ==
    /\ app = "init"
    /\ DATA_DIR = NoneStr
    /\ config = [kind |-> "missing"]
    /\ MAPPINGS = NoneObj
    /\ DATATYPE_MAPPINGS = NoneObj
    /\ disk = InitialDisk
    /\ dirs = InitialDirs
    /\ tasks = [a \in Awaits |-> 0]
    /\ response = NoResponse
    /\ parsed = NotParsed
    /\ upload = NoUpload
    /\ \E e2f \in ExtensionTables :
          gen = [pc |-> "imported",
                 extension_to_file_format_mapping |-> e2f,
                 file_format_to_extension_mapping |->
                     [format \in FileFormats |-> ExtensionsOf(e2f, format)]]

\* lines 47-50
app_id_to_extensions ==
    /\ gen.pc = "imported"
    /\ gen' = [pc |-> "line 51",
               extension_to_file_format_mapping |-> gen.extension_to_file_format_mapping,
               file_format_to_extension_mapping |-> gen.file_format_to_extension_mapping,
               app_id_to_extensions |->
                   FilecatLoop(gen.file_format_to_extension_mapping, 1, EmptyOrderedDict)]
    /\ UNCHANGED <<app, DATA_DIR, config, MAPPINGS, DATATYPE_MAPPINGS, disk, dirs, tasks,
                   response, parsed, upload>>

\* lines 67-82
extensions_mapping ==
    /\ gen.pc = "line 51"
    /\ gen' = [pc |-> "done",
               extension_to_file_format_mapping |-> gen.extension_to_file_format_mapping,
               file_format_to_extension_mapping |-> gen.file_format_to_extension_mapping,
               app_id_to_extensions |-> gen.app_id_to_extensions,
               extensions_mapping |->
                   AppLoop(gen.app_id_to_extensions, 1, gen.extension_to_file_format_mapping,
                           EmptyOrderedDict)]
    /\ UNCHANGED <<app, DATA_DIR, config, MAPPINGS, DATATYPE_MAPPINGS, disk, dirs, tasks,
                   response, parsed, upload>>

NextGenerate == app_id_to_extensions \/ extensions_mapping

SpecGenerate == InitGenerate /\ [][NextGenerate]_vars

(***************************************************************************)
(* Properties.                                                             *)
(***************************************************************************)
IsBulkResult == response.handler = "bulk_specification" /\ response.status # 401
IsBulkError == IsBulkResult /\ response.status # 200

ErrorKinds == {response.errors[i].type : i \in 1..Len(response.errors)}

\* C1: a failed bulk_specification answers 400 when its error kinds include
\* PARSE_FAIL or UNSUPPORTED_TYPE (also next to FILE_NOT_FOUND), else 404
\* when they include FILE_NOT_FOUND, else (only OTHER) 500; the set of kinds
\* is never empty.
C1_Severity ==
    IsBulkError =>
        /\ ErrorKinds # {}
        /\ response.status =
              IF PARSE_FAIL \in ErrorKinds \/ UNSUPPORTED_TYPE \in ErrorKinds THEN 400
              ELSE IF FILE_NOT_FOUND \in ErrorKinds THEN 404
              ELSE 500

\* a 400 with FILE_NOT_FOUND next to UNSUPPORTED_TYPE
C1_Witness ==
    /\ IsBulkError
    /\ response.status = 400
    /\ ErrorKinds = {FILE_NOT_FOUND, UNSUPPORTED_TYPE}

\* what one file alone makes of a parse: TRUE when it yields an error
FileFails(path) ==
    \/ _file_type_resolver(path).unsupported_type # NoneStr
    \/ path \notin DOMAIN disk
    \/ disk[path].kind # "spec"
    \/ disk[path].format # FormatOf(_file_type_resolver(path).parser)

\* C2: a bulk_specification response is either the success payload (types and
\* files) or the error payload, never both, never neither; it is the success
\* payload only when the parse had no error and at least one datatype, and
\* never when one of the files fails.
C2_Exclusive ==
    IsBulkResult =>
        /\ ("types" \in DOMAIN response) = ("files" \in DOMAIN response)
        /\ ("types" \in DOMAIN response) # ("errors" \in DOMAIN response)
        /\ (response.status = 200) = ("types" \in DOMAIN response)
        /\ "types" \in DOMAIN response =>
              /\ parsed.res.errors = <<>>
              /\ DOMAIN response.types # {}
              /\ \A k \in Range(parsed.keys) : ~FileFails(k)
        /\ "errors" \in DOMAIN response => Len(response.errors) > 0
        /\ (\E k \in Range(parsed.keys) : FileFails(k)) => "errors" \in DOMAIN response

\* a.csv parses cleanly, m.tsv is missing: one FILE_NOT_FOUND and no rows
C2_Witness ==
    /\ IsBulkError
    /\ Len(response.errors) = 1
    /\ response.errors[1].type = FILE_NOT_FOUND
    /\ Len(parsed.keys) = 2
    /\ \E k \in Range(parsed.keys) : ~FileFails(k)

ErrorsOf(user_path) == {i \in 1..Len(response.errors) : response.errors[i].file = user_path}

\* C3: the error payload has, for every path of the request whose type is
\* unsupported, exactly one error, of kind UNSUPPORTED_TYPE, naming that
\* file, and for every other path that is missing exactly one, of kind
\* FILE_NOT_FOUND.
C3_AllErrors ==
    IsBulkResult =>
        \A k \in Range(parsed.keys) :
            LET unsupported == _file_type_resolver(k).unsupported_type # NoneStr
                missing == ~unsupported /\ k \notin DOMAIN disk
            IN unsupported \/ missing =>
                 /\ "errors" \in DOMAIN response
                 /\ Cardinality(ErrorsOf(parsed.paths[k])) = 1
                 /\ \A i \in ErrorsOf(parsed.paths[k]) :
                       response.errors[i].type =
                          IF unsupported THEN UNSUPPORTED_TYPE ELSE FILE_NOT_FOUND

\* two offending files in one request, the missing one after the unsupported one
C3_Witness ==
    /\ IsBulkError
    /\ Len(parsed.keys) = 2
    /\ _file_type_resolver(parsed.keys[1]).unsupported_type # NoneStr
    /\ _file_type_resolver(parsed.keys[2]).unsupported_type = NoneStr
    /\ parsed.keys[2] \notin DOMAIN disk
    /\ Len(response.errors) = 2

IsResolution == response.handler = "_file_type_resolver"

Classified(path) == get_mappings(<<path>>).fileinfo[1]

TabularTypes == {CSV, TSV, EXCEL}

\* C4: the resolver's result has exactly one of parser and unsupported_type;
\* it has a parser, that of the format, exactly when the first entry of the
\* file's file_ext_type is CSV, TSV or EXCEL, and has no parser when the file
\* has no classification.
C4_ParserIffTabular ==
    IsResolution =>
        LET r == response.resolution
            fet == Classified(response.path).file_ext_type
            tabular == fet # <<>> /\ fet[1] \in TabularTypes
        IN /\ (r.parser = None) # (r.unsupported_type = NoneStr)
           /\ (r.parser # None) = tabular
           /\ tabular =>
                 r.parser = IF fet[1] = CSV THEN parse_csv
                            ELSE IF fet[1] = TSV THEN parse_tsv ELSE parse_excel

\* a file whose classification lists CSV second is unsupported
C4_Witness ==
    /\ IsResolution
    /\ response.resolution.parser = None
    /\ Len(Classified(response.path).file_ext_type) = 2
    /\ Classified(response.path).file_ext_type[2] = CSV

\* C5: an unsupported result carries the classified suffix when there is one,
\* else the path's suffix without its dot when the path has one, else the
\* file name; it is not empty.
C5_ExtensionPriority ==
    IsResolution /\ response.resolution.unsupported_type # NoneStr =>
        LET ext == response.resolution.unsupported_type
            fi == Classified(response.path)
            name == PathName(response.path)
        IN /\ ext # <<>>
           /\ IF fi.suffix # NoneStr /\ fi.suffix # <<>> THEN ext = fi.suffix
              ELSE IF PathSuffix(response.path) # <<>>
                   THEN <<".">> \o ext = PathSuffix(response.path)
                   ELSE ext = name

\* the classified suffix (fa.gz) wins over the path's suffix (.gz)
C5_Witness ==
    /\ IsResolution
    /\ response.resolution.unsupported_type = ext_fa_gz
    /\ PathSuffix(response.path) = Dot \o <<"g", "z">>

Unbuilt == [MAPPINGS |-> NoneObj, DATATYPE_MAPPINGS |-> NoneObj]

\* what inject_config_dependencies makes of the document at startup
AtStartup == inject_config_dependencies(config, Unbuilt)

\* the paths the requests of the staging area name or create
StagingPaths ==
    {validate_path(username, Strip(f)).full_path : f \in FileEntries \cup {f_out_media_csv}}

\* C6: in every state of the running server, whatever requests ran before,
\* _file_type_resolver makes of a path what the path's name and the table
\* built at startup determine: resolving a path again gives the same
\* FileTypeResolution.
C6_ResolverStable ==
    app = "serving" =>
        LET table == AtStartup.MAPPINGS
        IN \A p \in StagingPaths :
              _file_type_resolver(p) = ResolutionOf(Classify(table, p).fileinfo, p)

\* a path resolved by bulk_specification after a write request changed the disk
C6_Witness ==
    /\ IsBulkResult
    /\ parsed.keys # <<>>
    /\ disk # InitialDisk

Built == app = "serving"

\* C7: in the tables built from a document, every record (extension e, first
\* file type t, app a among its mappings) has t in datatype_to_filetype[a]
\* and e in filetype_to_extensions[t], and every entry of the two tables
\* comes from a record of the document.
C7_TablesMatchRecords ==
    Built =>
        LET items == config.doc.types
            d2f == DATATYPE_MAPPINGS.datatype_to_filetype
            f2e == DATATYPE_MAPPINGS.filetype_to_extensions
            Type(i) == items[i][2].file_ext_type[1]
            Apps(i) == {items[i][2].mappings[j].id : j \in 1..Len(items[i][2].mappings)}
        IN /\ \A i \in 1..Len(items) :
                 /\ Type(i) \in DOMAIN f2e
                 /\ items[i][1] \in Range(f2e[Type(i)])
                 /\ \A a \in Apps(i) : a \in DOMAIN d2f /\ Type(i) \in Range(d2f[a])
           /\ \A t \in DOMAIN f2e :
                 /\ f2e[t] # <<>>
                 /\ \A e \in Range(f2e[t]) :
                       \E i \in 1..Len(items) : items[i][1] = e /\ Type(i) = t
           /\ \A a \in DOMAIN d2f :
                 /\ d2f[a] # <<>>
                 /\ \A t \in Range(d2f[a]) :
                       \E i \in 1..Len(items) : Type(i) = t /\ a \in Apps(i)

\* tables with an app of two file types and a file type of two extensions
C7_Witness ==
    /\ Built
    /\ \E a \in DOMAIN DATATYPE_MAPPINGS.datatype_to_filetype :
          Len(DATATYPE_MAPPINGS.datatype_to_filetype[a]) >= 2
    /\ \E t \in DOMAIN DATATYPE_MAPPINGS.filetype_to_extensions :
          Len(DATATYPE_MAPPINGS.filetype_to_extensions[t]) >= 2

StrictlyAscending(l) == \A i \in 1..(Len(l) - 1) : StrLess(l[i], l[i + 1])

Reverse(l) == [i \in 1..Len(l) |-> l[Len(l) + 1 - i]]

\* the documents that differ from items in the order of the records, and in
\* the order of the entries of every mappings list
Reorderings(items) ==
    LET perms == {[i \in 1..Len(items) |-> items[p[i]]] : p \in Permutations(1..Len(items))}
    IN perms \cup
       {[i \in 1..Len(q) |-> <<q[i][1], [q[i][2] EXCEPT !.mappings = Reverse(@)]>>] : q \in perms}

\* C8: every list of the two tables is strictly ascending, and the tables
\* built from the document with its records and mappings entries in any
\* other order are the same tables.
C8_SortedOrderFree ==
    Built =>
        /\ \A a \in DOMAIN DATATYPE_MAPPINGS.datatype_to_filetype :
              StrictlyAscending(DATATYPE_MAPPINGS.datatype_to_filetype[a])
        /\ \A t \in DOMAIN DATATYPE_MAPPINGS.filetype_to_extensions :
              StrictlyAscending(DATATYPE_MAPPINGS.filetype_to_extensions[t])
        /\ \A other \in Reorderings(config.doc.types) :
              inject_config_dependencies([kind |-> "json", doc |-> [types |-> other]],
                                         Unbuilt).DATATYPE_MAPPINGS = DATATYPE_MAPPINGS

\* a document that names two extensions of one file type, and two file types
\* of one app, in descending order
C8_Witness ==
    /\ Built
    /\ \E i, j \in 1..Len(config.doc.types) :
          /\ i < j
          /\ config.doc.types[i][2].file_ext_type[1] = config.doc.types[j][2].file_ext_type[1]
          /\ StrLess(config.doc.types[j][1], config.doc.types[i][1])
    /\ \E i, j \in 1..Len(config.doc.types) :
          /\ i < j
          /\ StrLess(config.doc.types[j][2].file_ext_type[1], config.doc.types[i][2].file_ext_type[1])
          /\ \E a \in DOMAIN DATATYPE_MAPPINGS.datatype_to_filetype :
                {config.doc.types[i][2].file_ext_type[1], config.doc.types[j][2].file_ext_type[1]}
                    \subseteq Range(DATATYPE_MAPPINGS.datatype_to_filetype[a])

\* C9: while the server runs, the extension mappings and the derived tables
\* are the values startup built, and every importer_filetypes response
\* carries the derived tables.
C9_TableReadOnly ==
    app = "serving" =>
        /\ MAPPINGS = AtStartup.MAPPINGS
        /\ DATATYPE_MAPPINGS = AtStartup.DATATYPE_MAPPINGS
        /\ response.handler = "importer_filetypes" =>
              response.data = AtStartup.DATATYPE_MAPPINGS

\* an importer_filetypes response after a write, with two other requests
\* suspended
C9_Witness ==
    /\ response.handler = "importer_filetypes"
    /\ disk # InitialDisk
    /\ tasks[AT_BULK_AUTH] > 0
    /\ tasks[AT_WRITE_JSON] > 0

\* C10: nothing is served unless startup succeeded: a request is in flight or
\* answered only by a serving application, an application serves only with
\* both tables built in full from the document, and a failed
\* inject_config_dependencies leaves no application.
C10_FatalAtStartup ==
    /\ app = "serving" =>
          /\ ~AtStartup.raised
          /\ MAPPINGS # NoneObj
          /\ DATATYPE_MAPPINGS # NoneObj
          /\ DOMAIN DATATYPE_MAPPINGS = {"datatype_to_filetype", "filetype_to_extensions"}
          /\ \A i \in 1..Len(MAPPINGS.types) :
                MAPPINGS.types[i][1] \in
                    UNION {Range(DATATYPE_MAPPINGS.filetype_to_extensions[t]) :
                              t \in DOMAIN DATATYPE_MAPPINGS.filetype_to_extensions}
    /\ app # "serving" => response = NoResponse /\ InFlight = 0
    /\ app = "failed" => AtStartup.raised

\* startup failed on a record of the document, after _MAPPINGS was assigned
C10_Witness ==
    /\ app = "failed"
    /\ MAPPINGS # NoneObj
    /\ "types" \in DOMAIN MAPPINGS
    /\ DATATYPE_MAPPINGS = NoneObj

\* the tables that a document alone determines
TablesOf(doc) == inject_config_dependencies([kind |-> "json", doc |-> doc], Unbuilt)

\* C11: after any sequence of inject_config_dependencies calls, failed ones
\* included, the extension mapping and the derived tables come from one and
\* the same document: both unset, or _DATATYPE_MAPPINGS the tables that the
\* document held by _MAPPINGS determines.
C11_OneDocument ==
    \/ MAPPINGS = NoneObj /\ DATATYPE_MAPPINGS = NoneObj
    \/ /\ MAPPINGS # NoneObj
       /\ ~TablesOf(MAPPINGS).raised
       /\ DATATYPE_MAPPINGS = TablesOf(MAPPINGS).DATATYPE_MAPPINGS

\* after a document was loaded in full, a reload failed part-way: _MAPPINGS
\* holds the malformed document, _DATATYPE_MAPPINGS the earlier tables
C11_Witness ==
    /\ app = "failed"
    /\ MAPPINGS # NoneObj
    /\ DATATYPE_MAPPINGS # NoneObj
    /\ TablesOf(MAPPINGS).raised

\* a write_bulk_specification handler returned in this step, having read a body
WriteReturns ==
    /\ response' # response
    /\ response'.handler = "write_bulk_specification"
    /\ "data" \in DOMAIN parsed'

\* some row of some datatype has a key set other than the parameter ids of
\* the datatype's order_and_display
KeyMismatch(types) ==
    \E dt \in DOMAIN types :
        \E i \in 1..Len(types[dt].data) :
            DOMAIN types[dt].data[i] #
                {types[dt].order_and_display[j][1] : j \in 1..Len(types[dt].order_and_display)}

\* the request passes the checks of lines 178-186 and os.makedirs succeeds
ReachesWriter(data) ==
    /\ data.json = "dict"
    /\ data.output_directory # NoneStr
    /\ data.output_file_type \in IMPSPEC_FILE_TO_WRITER
    /\ validate_path(username, data.output_directory).full_path \notin DOMAIN disk

\* C12: a write request with a row whose keys differ from the parameter ids
\* is not answered with success and leaves every file as it was, the files
\* of the valid datatypes included; when it reaches the writer the answer is
\* the one 400 error response of the writer's exception.
C12_NoFilesOnKeyMismatch ==
    [][WriteReturns /\ parsed'.data.json = "dict" /\ KeyMismatch(parsed'.data.types) =>
          /\ response'.status # 200
          /\ disk' = disk
          /\ ReachesWriter(parsed'.data) => response' = JSONErrorResponse(ERR_WRITER, 400)]_vars

\* a TSV request for media (valid rows) and sample_set (a row without
\* name) is answered 400 after the directory was made
C12_Witness ==
    /\ response = JSONErrorResponse(ERR_WRITER, 400)
    /\ parsed.data.output_file_type = TSV
    /\ DOMAIN parsed.data.types = {media_id, sample_set_id}
    /\ FullPath(out_dir) \in dirs

\* C14: a successful bulk_specification response has the same datatypes in
\* types and in files, and for each datatype the file is the path below the
\* user's directory, as validate_path makes it of an entry of the request,
\* of the file on disk that holds the rows returned, with the tab of that
\* section; it is never the absolute path.
C14_SameKeysDisplayPath ==
    IsBulkResult /\ response.status = 200 =>
        /\ DOMAIN response.types = DOMAIN response.files
        /\ DOMAIN response.types # {}
        /\ \A dt \in DOMAIN response.types :
              LET shown == response.files[dt].file
              IN /\ shown \in {validate_path(username, f).user_path : f \in Range(parsed.files)}
                 /\ shown \notin Range(parsed.keys)
                 /\ \E k \in Range(parsed.keys) :
                       /\ k = DataDir \o Slash \o shown
                       /\ k \in DOMAIN disk
                       /\ \E i \in 1..Len(disk[k].sections) :
                             /\ disk[k].sections[i].datatype = dt
                             /\ disk[k].sections[i].rows = response.types[dt]
                             /\ disk[k].sections[i].tab = response.files[dt].tab

\* a success of two datatypes from the two tabs of one file, named twice
C14_Witness ==
    /\ IsBulkResult
    /\ response.status = 200
    /\ Cardinality(DOMAIN response.types) = 2
    /\ Len(parsed.files) = 2
    /\ Len(parsed.keys) = 1

\* the error texts of the checks made before os.makedirs
ValidationErrors ==
    {ERR_CONTENT_TYPE, ERR_CONTENT_LENGTH, ERR_NOT_MAPPING, ERR_DIRECTORY, ERR_FILE_TYPE}

\* C15: a write request whose body is not a mapping, has no string
\* output_directory, or an output_file_type other than CSV, TSV and EXCEL is
\* answered with the error of that check; every response of a validation
\* check (these, and the 415 and 411 of the header checks) is an error
\* response of a step that leaves files and directories as they were.
C15_RejectedLeavesDisk ==
    [][/\ WriteReturns =>
            LET data == parsed'.data
            IN /\ data.json = "list" => response' = JSONErrorResponse(ERR_NOT_MAPPING, 400)
               /\ data.json = "dict" /\ data.output_directory = NoneStr =>
                     response' = JSONErrorResponse(ERR_DIRECTORY, 400)
               /\ data.json = "dict" /\ data.output_directory # NoneStr
                     /\ data.output_file_type \notin {CSV, TSV, EXCEL} =>
                     response' = JSONErrorResponse(ERR_FILE_TYPE, 400)
       /\ (/\ response' # response
           /\ "error" \in DOMAIN response'
           /\ response'.error \in ValidationErrors) =>
              /\ response'.status \in {400, 411, 415}
              /\ (response'.status = 415) = (response'.error = ERR_CONTENT_TYPE)
              /\ (response'.status = 411) = (response'.error = ERR_CONTENT_LENGTH)
              /\ disk' = disk
              /\ dirs' = dirs]_vars

\* a request for the directory out with output_file_type PDF is rejected
\* and out does not exist
C15_Witness ==
    /\ response = JSONErrorResponse(ERR_FILE_TYPE, 400)
    /\ parsed.data.output_directory = out_dir
    /\ parsed.data.output_file_type = PDF
    /\ FullPath(out_dir) \notin dirs

\* C16: files and directories change only in the step in which a
\* write_bulk_specification handler, resumed from its last await, returns,
\* and that step has the whole effect of the call: the directory and all
\* the files of a 200, or the directory alone with the writer's 400; no
\* step that leaves a handler suspended, or cancels one, changes them.
C16_NoAwaitInWrite ==
    [][disk' # disk \/ dirs' # dirs =>
          /\ WriteReturns
          /\ tasks[AT_WRITE_JSON] > 0
          /\ tasks' = Resume(AT_WRITE_JSON)
          /\ LET folder == validate_path(username, parsed'.data.output_directory)
             IN /\ folder.full_path \in dirs'
                /\ \/ /\ response' = JSONErrorResponse(ERR_WRITER, 400)
                      /\ disk' = disk
                   \/ /\ response'.status = 200
                      /\ DOMAIN response'.files_created = DOMAIN parsed'.data.types
                      /\ \A ty \in DOMAIN response'.files_created :
                            DataDir \o Slash \o response'.files_created[ty] \in DOMAIN disk']_vars

\* a write has created its file while another write_bulk_specification is
\* suspended at request.json()
C16_Witness ==
    /\ response.handler = "write_bulk_specification"
    /\ response.status = 200
    /\ FullPath(f_out_media_csv) \in DOMAIN disk
    /\ tasks[AT_WRITE_JSON] > 0

\* C17: whatever parts the client sends, the loop of upload_files_chunked
\* has read at most CounterLimit parts besides the one that ends it.
C17_LoopBounded ==
    "read" \in DOMAIN upload => upload.read <= CounterLimit + 1

\* the loop still runs after more than CounterLimit + 1 parts
C17_Witness ==
    /\ upload.pc = "loop"
    /\ upload.read > CounterLimit + 1
    /\ upload.counter < CounterLimit

\* every app some file format lists
AppIds ==
    UNION {Range(file_format_to_app_mapping[i][2]) : i \in 1..Len(file_format_to_app_mapping)}

\* the entries of extension e that name app a
EntriesFor(e, a) ==
    LET m == gen.extensions_mapping
    IN IF e \in Range(m.keys) THEN {k \in 1..Len(m.val[e]) : m.val[e][k].id = a} ELSE {}

\* app a is listed for a file format whose extensions include e
Accepts(a, e) ==
    \E i \in 1..Len(file_format_to_app_mapping) :
        /\ a \in Range(file_format_to_app_mapping[i][2])
        /\ e \in Range(gen.file_format_to_extension_mapping[file_format_to_app_mapping[i][1]])

\* C13: in the mapping GenerateMappings.py builds, the list of an extension
\* has exactly one entry for each app that accepts a file format of the
\* extension and none for any other app; every entry has app_weight 1 and
\* as file_type the one file format of its extension.
C13_OneEntryPerApp ==
    gen.pc = "done" =>
        LET m == gen.extensions_mapping
        IN /\ \A i, j \in 1..Len(m.keys) : m.keys[i] = m.keys[j] => i = j
           /\ Range(m.keys) \subseteq Range(Registered)
           /\ \A e \in Range(Registered) :
                 \A a \in AppIds :
                    Cardinality(EntriesFor(e, a)) = IF Accepts(a, e) THEN 1 ELSE 0
           /\ \A e \in Range(m.keys) :
                 \A k \in 1..Len(m.val[e]) :
                    /\ m.val[e][k].id \in AppIds
                    /\ m.val[e][k].app_weight = 1
                    /\ m.val[e][k].file_type = <<gen.extension_to_file_format_mapping[e]>>

\* gff3 under GFF lists gff_genome and gff_metagenome; fa under FASTA lists
\* them too, after assembly
C13_Witness ==
    /\ gen.pc = "done"
    /\ gen.extension_to_file_format_mapping = (<<"g", "f", "f", "3">> :> Mappings.GFF) @@ (ext_fa :> FASTA)
    /\ [k \in 1..2 |-> gen.extensions_mapping.val[<<"g", "f", "f", "3">>][k].id]
           = <<Mappings.gff_genome_id, Mappings.gff_metagenome_id>>
    /\ Len(gen.extensions_mapping.val[ext_fa]) = 3

====
